---- MODULE Spec2Model ----
(***************************************************************************)
(* Model of composites/utils.py: read_laminaprop, laminated_plate and      *)
(* isotropic_plate.                                                        *)
(*                                                                         *)
(* Numbers are exact rationals <<numerator, denominator>> in lowest terms  *)
(* with a positive denominator.  Material records (MatLamina objects) live *)
(* on a heap and are referred to by their index, so that aliasing between  *)
(* plies is observable.  Every call leaves a log of the object             *)
(* constructions, attribute writes and collaborator calls it made, in the  *)
(* order the code makes them.                                              *)
(***************************************************************************)
EXTENDS Integers, Sequences, FiniteSets, TLC

VARIABLES pc, call, heap, ret, log

vars == <<pc, call, heap, ret, log>>

(***************************************************************************)
(* Bounds of the model.                                                    *)
(***************************************************************************)
MaxTupleLen == 10
MaxStack == 2
MaxSeq == 2

(***************************************************************************)
(* Exact rational arithmetic.                                              *)
(***************************************************************************)
Abs(x) == IF x < 0 THEN -x ELSE x

RECURSIVE GCD(_, _)
GCD(a, b) == IF b = 0 THEN a ELSE GCD(b, a % b)

Norm(n, d) ==
    LET g == GCD(Abs(n), Abs(d))
        s == IF d < 0 THEN -1 ELSE 1
    IN  <<(s * n) \div g, (s * d) \div g>>

R(n, d) == Norm(n, d)
Zero == R(0, 1)
One == R(1, 1)
Two == R(2, 1)
IsZero(a) == a[1] = 0
RAdd(a, b) == Norm(a[1] * b[2] + b[1] * a[2], a[2] * b[2])
RMul(a, b) == Norm(a[1] * b[1], a[2] * b[2])
RQuot(a, b) == Norm(a[1] * b[2], a[2] * b[1])

\* An attribute that has not been assigned yet.
Unset == <<0, 0>>

(***************************************************************************)
(* Outcomes of an expression: a value, or the exception it raises.         *)
(***************************************************************************)
Ok(v) == [err |-> "ok", val |-> v]
Raise(e) == [err |-> e, val |-> <<>>]

\* Python's a / b
Div(a, b) == IF IsZero(b) THEN Raise("ZeroDivisionError") ELSE Ok(RQuot(a, b))

\* Python's t[i], i counted from 0, i >= 0
Index(t, i) == IF i < Len(t) THEN Ok(t[i + 1]) ELSE Raise("IndexError")

\* Optional arguments: None, or a value
None == [some |-> FALSE, val |-> <<>>]
NoFlag == [some |-> FALSE, val |-> FALSE]
Some(x) == [some |-> TRUE, val |-> x]

Min(a, b) == IF a < b THEN a ELSE b

Ev(e, o, f) == [ev |-> e, obj |-> o, field |-> f]

(***************************************************************************)
(* read_laminaprop                                                         *)
(***************************************************************************)
FieldNames ==
    {"e1", "e2", "e3", "nu12", "nu13", "nu23", "nu21", "nu31", "nu32",
     "g12", "g13", "g23", "rho"}

\* The attributes in the order lines 77-89 assign them.
Fields ==
    <<"e1", "e2", "e3", "nu12", "nu13", "nu23", "nu21", "nu31", "nu32",
      "g12", "g13", "g23", "rho">>

EmptyMatLamina == [f \in FieldNames |-> Unset]

\* line 58, matlam = MatLamina(): the reference of the new object when
\* nobjs objects exist
NewMatLaminaShared(nobjs) == 1

NewMatLamina(nobjs) == nobjs + 1

\* lines 66-67 and 71-72 after g was computed:
\* laminaprop = (e, e, nu, g, g, g, e, nu, nu)
IsotropicFrom(e, nu, g) ==
    IF g.err # "ok" THEN g
    ELSE Ok(<<e, e, nu, g.val, g.val, g.val, e, nu, nu>>)

\* g = e/(1+nu)
IsotropicTupleNoTwo(e, nu) == IsotropicFrom(e, nu, Div(e, RAdd(One, nu)))

\* lines 66-67 and 71-72: g = e/(2*(1+nu))
IsotropicTuple(e, nu) ==
    IsotropicFrom(e, nu, Div(e, RMul(Two, RAdd(One, nu))))

\* lines 63-67: the legacy isotropic form (e1, e2, nu12); t is the tuple so
\* far, or the exception raised so far
ExpandLegacy(t) ==
    IF t.err = "ok" /\ Len(t.val) = 3
    THEN IsotropicTuple(t.val[1], t.val[3])
    ELSE t

\* lines 68-72: the isotropic form (e, nu)
ExpandIsotropic(t) ==
    IF t.err = "ok" /\ Len(t.val) = 2
    THEN IsotropicTuple(t.val[1], t.val[2])
    ELSE t

\* lines 73-76 with e1 appended in the place of e2
CompleteTupleE1(t) ==
    IF t.err # "ok" THEN t
    ELSE IF Len(t.val) < 3 THEN Raise("IndexError")
    ELSE IF Len(t.val) < 9
    THEN Ok(SubSeq(t.val, 1, Min(6, Len(t.val)))
                \o <<t.val[1], t.val[3], t.val[3]>>)
    ELSE t

\* lines 73-76: nu12 = laminaprop[2]; shorter than 9: e2 = laminaprop[1],
\* keep the first six elements and append [e2, nu12, nu12]
CompleteTuple(t) ==
    IF t.err # "ok" THEN t
    ELSE IF Len(t.val) < 3 THEN Raise("IndexError")
    ELSE IF Len(t.val) < 9
    THEN Ok(SubSeq(t.val, 1, Min(6, Len(t.val)))
                \o <<t.val[2], t.val[3], t.val[3]>>)
    ELSE t

\* lines 63-76
ExpandTuple(laminaprop) ==
    CompleteTuple(ExpandIsotropic(ExpandLegacy(Ok(laminaprop))))

\* line 85 with e2 and e3 exchanged
Nu32Swapped(nu23, e3, e2) == Div(RMul(nu23, e2), e3)

\* line 83: matlam.nu12 * matlam.e2 / matlam.e1
Nu21(nu12, e2, e1) == Div(RMul(nu12, e2), e1)
\* line 84: matlam.nu13 * matlam.e3 / matlam.e1
Nu31(nu13, e3, e1) == Div(RMul(nu13, e3), e1)
\* line 85: matlam.nu23 * matlam.e3 / matlam.e2
Nu32(nu23, e3, e2) == Div(RMul(nu23, e3), e2)

\* The right-hand side of the assignment to attribute f (lines 77-89), t
\* being the tuple after lines 63-76.  The attributes that lines 83-85 read
\* were assigned from t[0], t[1], t[6], t[2], t[7], t[8] by lines 77-82.
FieldValue(f, t, rho) ==
    CASE f = "e1" -> Index(t, 0)
      [] f = "e2" -> Index(t, 1)
      [] f = "e3" -> Index(t, 6)
      [] f = "nu12" -> Index(t, 2)
      [] f = "nu13" -> Index(t, 7)
      [] f = "nu23" -> Index(t, 8)
      [] f = "nu21" -> Nu21(t[3], t[2], t[1])
      [] f = "nu31" -> Nu31(t[8], t[7], t[1])
      [] f = "nu32" -> Nu32(t[9], t[7], t[2])
      [] f = "g12" -> Index(t, 3)
      [] f = "g13" -> Index(t, 4)
      [] f = "g23" -> Index(t, 5)
      [] f = "rho" -> Ok(rho)

FieldPos(f) == CHOOSE k \in 1..Len(Fields) : Fields[k] = f

\* The number of assignments of lines 77-89 made before the first exception.
Assigned(t, rho) ==
    IF \A k \in 1..Len(Fields) : FieldValue(Fields[k], t, rho).err = "ok"
    THEN Len(Fields)
    ELSE (CHOOSE k \in 1..Len(Fields) :
             /\ \A j \in 1..(k - 1) : FieldValue(Fields[j], t, rho).err = "ok"
             /\ FieldValue(Fields[k], t, rho).err # "ok") - 1

\* lines 77-89 when the first n assignments are made: the attributes are
\* written one after the other and the first exception ends the call.
PopulateUpTo(n, t, rho) ==
    [err |-> IF n = Len(Fields) THEN "ok"
             ELSE FieldValue(Fields[n + 1], t, rho).err,
     nset |-> n,
     matlam |-> [f \in FieldNames |->
                    IF FieldPos(f) <= n THEN FieldValue(f, t, rho).val
                    ELSE Unset]]

\* lines 77-89
Populate(t, rho) == PopulateUpTo(Assigned(t, rho), t, rho)

\* An exception before line 77: the object of line 58 has no attribute set.
Failed(ref, e) ==
    [err |-> e, ref |-> ref, matlam |-> EmptyMatLamina,
     log |-> <<Ev("MatLamina", ref, "")>>]

\* lines 77-92, p being the outcome of the assignments: matlam.rebuild() is
\* called and matlam returned when none of them raised.
Returned(ref, p) ==
    [err |-> p.err, ref |-> ref, matlam |-> p.matlam,
     log |-> <<Ev("MatLamina", ref, "")>>
             \o [k \in 1..p.nset |-> Ev("set", ref, Fields[k])]
             \o (IF p.err = "ok" THEN <<Ev("matlam.rebuild", ref, "")>>
                 ELSE <<>>)]

\* lines 63-92, t being the outcome of lines 63-76
ReadTuple(ref, t, rho) ==
    IF t.err # "ok" THEN Failed(ref, t.err)
    ELSE Returned(ref, Populate(t.val, rho))

\* read_laminaprop(laminaprop, rho) called when nobjs objects exist;
\* laminaprop is None or a tuple.  The result carries the exception ("ok"
\* for a return), the reference of the MatLamina it created, the attributes
\* of that object and the log of the call.
read_laminaprop(nobjs, laminaprop, rho) ==
    IF ~laminaprop.some THEN Failed(NewMatLamina(nobjs), "ValueError")
    ELSE ReadTuple(NewMatLamina(nobjs), ExpandTuple(laminaprop.val), rho)

\* The heap after the objects of `made` were created and written in order:
\* a reference denotes the object last written under it.
HeapOf(made) ==
    LET refs == {made[i].ref : i \in 1..Len(made)}
        top == IF refs = {} THEN 0 ELSE CHOOSE r \in refs : \A q \in refs : q <= r
        last(r) == CHOOSE i \in 1..Len(made) :
                      /\ made[i].ref = r
                      /\ \A j \in (i + 1)..Len(made) : made[j].ref # r
    IN  [r \in 1..top |-> IF r \in refs THEN made[last(r)].matlam
                          ELSE EmptyMatLamina]

(***************************************************************************)
(* laminated_plate                                                         *)
(***************************************************************************)
\* Angles are Python ints or floats; float(theta) keeps the number and
\* makes it a float.
IntDeg(n) == [ty |-> "int", v |-> R(n, 1)]
FloatDeg(n, d) == [ty |-> "float", v |-> R(n, d)]

Float(theta) == [ty |-> "float", v |-> theta.v]

\* default values of the optional parameters (lines 13, 95-96, 176)
DefaultRho == Zero
DefaultOffset == Zero
DefaultCalcScf == TRUE

OrDefault(arg, d) == IF arg.some THEN arg.val ELSE d

\* [x for i in stack]
Broadcast(x, stack) == [i \in 1..Len(stack) |-> x]

\* lines 143-147 with the scalar form taking precedence
ResolvePlytsScalarFirst(stack, plyt, plyts) ==
    IF plyt.some THEN Ok(Broadcast(plyt.val, stack))
    ELSE IF plyts.some THEN Ok(plyts.val)
    ELSE Raise("ValueError")

\* lines 143-147
ResolvePlyts(stack, plyt, plyts) ==
    IF ~plyts.some
    THEN IF ~plyt.some THEN Raise("ValueError")
         ELSE Ok(Broadcast(plyt.val, stack))
    ELSE Ok(plyts.val)

\* lines 149-153 without the check of line 150
ResolveLaminapropsUnchecked(stack, laminaprop, laminaprops) ==
    IF ~laminaprops.some
    THEN IF ~laminaprop.some THEN Ok(<<>>)
         ELSE Ok(Broadcast(laminaprop.val, stack))
    ELSE Ok(laminaprops.val)

\* lines 149-153
ResolveLaminaprops(stack, laminaprop, laminaprops) ==
    IF ~laminaprops.some
    THEN IF ~laminaprop.some THEN Raise("ValueError")
         ELSE Ok(Broadcast(laminaprop.val, stack))
    ELSE Ok(laminaprops.val)

\* lines 155-156
ResolveRhos(stack, rho, rhos) ==
    IF ~rhos.some THEN Broadcast(rho, stack) ELSE rhos.val

\* zip(plyts, laminaprops, stack, rhos) stops with the shortest sequence
ZipLen(plyts, laminaprops, stack, rhos) ==
    Min(Min(Len(plyts), Len(laminaprops)), Min(Len(stack), Len(rhos)))

\* line 164 in iteration i: i - 1 material records were created before
PlyMaterial(nobjs, i, laminaprops, rhos) ==
    read_laminaprop(nobjs + i - 1, Some(laminaprops[i]), rhos[i])

\* The number of iterations of the loop of lines 159-165 that complete.
Built(nobjs, n, laminaprops, rhos) ==
    IF \A i \in 1..n : PlyMaterial(nobjs, i, laminaprops, rhos).err = "ok" THEN n
    ELSE (CHOOSE i \in 1..n :
             /\ \A j \in 1..(i - 1) :
                   PlyMaterial(nobjs, j, laminaprops, rhos).err = "ok"
             /\ PlyMaterial(nobjs, i, laminaprops, rhos).err # "ok") - 1

\* lines 161-165 in iteration i
PlyLog(i, m) ==
    <<Ev("Lamina", i, ""), Ev("ply.theta", i, ""), Ev("ply.h", i, "")>>
        \o m.log
        \o (IF m.err = "ok"
            THEN <<Ev("ply.matlamina", i, ""), Ev("plies.append", i, "")>>
            ELSE <<>>)

\* lines 159-165 from iteration i to iteration last
RECURSIVE PliesLog(_, _, _, _, _)
PliesLog(i, last, nobjs, laminaprops, rhos) ==
    IF i > last THEN <<>>
    ELSE PlyLog(i, PlyMaterial(nobjs, i, laminaprops, rhos))
             \o PliesLog(i + 1, last, nobjs, laminaprops, rhos)

\* lines 168-171 with calc_scf called whatever the flag
FinalizeAlwaysScf(calc_scf) ==
    <<Ev("lam.rebuild", 0, ""), Ev("lam.calc_constitutive_matrix", 0, ""),
      Ev("lam.calc_scf", 0, "")>>

\* lines 168-171
Finalize(calc_scf) ==
    <<Ev("lam.rebuild", 0, ""), Ev("lam.calc_constitutive_matrix", 0, "")>>
        \o (IF calc_scf THEN <<Ev("lam.calc_scf", 0, "")>> ELSE <<>>)

NoLaminate == [offset |-> Zero, stack |-> <<>>, plies |-> <<>>]

\* lines 139-141
PlateLog0 ==
    <<Ev("Laminate", 0, ""), Ev("lam.offset", 0, ""), Ev("lam.stack", 0, "")>>

PlateFailed(e, made, lg) ==
    [err |-> e, made |-> made, lam |-> NoLaminate, log |-> lg]

\* lines 158-165 when `built` iterations complete: the material records
\* created (the last one by the iteration that raised, if any) and the log
LoopUpTo(nobjs, n, built, laminaprops, rhos) ==
    [built |-> built,
     made |-> [i \in 1..Min(built + 1, n) |->
                  PlyMaterial(nobjs, i, laminaprops, rhos)],
     log |-> PliesLog(1, Min(built + 1, n), nobjs, laminaprops, rhos)]

\* lines 158-165
Loop(nobjs, n, laminaprops, rhos) ==
    LoopUpTo(nobjs, n, Built(nobjs, n, laminaprops, rhos), laminaprops, rhos)

\* lines 158-173, loop being the outcome of the loop over n positions
Finish(stack, plyts, n, loop, offset, calc_scf) ==
    IF loop.built < n
    THEN PlateFailed(loop.made[Len(loop.made)].err, loop.made,
                     PlateLog0 \o loop.log)
    ELSE [err |-> "ok", made |-> loop.made,
          lam |-> [offset |-> offset, stack |-> stack,
                   plies |-> [i \in 1..n |->
                                [theta |-> Float(stack[i]), h |-> plyts[i],
                                 matlamina |-> loop.made[i].ref]]],
          log |-> PlateLog0 \o loop.log \o <<Ev("lam.plies", 0, "")>>
                      \o Finalize(calc_scf)]

\* lines 143-173, ts and ps being the outcomes of lines 143-147 and 149-153
\* and rhos the list of lines 155-156
Assemble(nobjs, stack, ts, ps, rhos, offset, calc_scf) ==
    IF ts.err # "ok" THEN PlateFailed(ts.err, <<>>, PlateLog0)
    ELSE IF ps.err # "ok" THEN PlateFailed(ps.err, <<>>, PlateLog0)
    ELSE Finish(stack, ts.val, ZipLen(ts.val, ps.val, stack, rhos),
                Loop(nobjs, ZipLen(ts.val, ps.val, stack, rhos), ps.val, rhos),
                offset, calc_scf)

\* laminated_plate called when nobjs material records exist.  plyt,
\* laminaprop, plyts, laminaprops and rhos are None or a value; rho, offset
\* and calc_scf are values.  The result carries the exception ("ok" for a
\* return), the material records created, the laminate and the log.
laminated_plate(nobjs, stack, plyt, laminaprop, rho, plyts, laminaprops, rhos, offset, calc_scf) ==
    Assemble(nobjs, stack, ResolvePlyts(stack, plyt, plyts),
             ResolveLaminaprops(stack, laminaprop, laminaprops),
             ResolveRhos(stack, rho, rhos), offset, calc_scf)

(***************************************************************************)
(* isotropic_plate                                                         *)
(***************************************************************************)
\* line 197 with the offset not passed on
isotropic_plate_no_offset(nobjs, thickness, E, nu, offset, calc_scf) ==
    laminated_plate(nobjs, <<IntDeg(0)>>, Some(thickness), Some(<<E, nu>>),
                    DefaultRho, None, None, None, DefaultOffset, calc_scf)

\* lines 197-198
isotropic_plate(nobjs, thickness, E, nu, offset, calc_scf) ==
    laminated_plate(nobjs, <<IntDeg(0)>>, Some(thickness), Some(<<E, nu>>),
                    DefaultRho, None, None, None, offset, calc_scf)

(***************************************************************************)
(* Inputs                                                                  *)
(***************************************************************************)
\* Values an element of a property tuple is drawn from, by position
\* (counted from 1): moduli and ratios including 0 and -1.
PosVals(i) ==
    IF i = 1 THEN {R(0, 1), R(2, 1)}
    ELSE IF i = 2 THEN {R(0, 1), R(-1, 1), R(3, 1)}
    ELSE IF i = 3 THEN {R(-1, 1), R(1, 2)}
    ELSE IF i = 4 THEN {R(0, 1), R(4, 1)}
    ELSE IF i <= 6 THEN {R(i, 1)}
    ELSE IF i <= 9 THEN {R(1, 4), R(i, 1)}
    ELSE {R(i, 1)}

RECURSIVE Tuples(_)
Tuples(n) ==
    IF n = 0 THEN {<<>>}
    ELSE {Append(t, v) : t \in Tuples(n - 1), v \in PosVals(n)}

LaminapropInputs ==
    {None} \cup {Some(t) : t \in UNION {Tuples(n) : n \in 0..MaxTupleLen}}

RhoInputs == {None, Some(R(3, 2))}

\* The sequence of length n that repeats the pattern p.
Cycle(p, n) == [i \in 1..n |-> p[((i - 1) % Len(p)) + 1]]

Cycles(patterns, maxlen) ==
    {Cycle(p, n) : p \in patterns, n \in 0..maxlen}

Stacks ==
    Cycles({<<IntDeg(45), FloatDeg(-45, 2)>>, <<IntDeg(0)>>}, MaxStack)

PropIso == <<R(2, 1), R(1, 2)>>
PropOrtho == <<R(2, 1), R(3, 1), R(1, 2), R(4, 1), R(5, 1), R(6, 1)>>
PropZero == <<R(0, 1), R(1, 2)>>

PlytInputs == {None, Some(R(1, 8))}
PlytsInputs == {None} \cup {Some(s) : s \in Cycles({<<R(1, 4), R(1, 2)>>}, MaxSeq)}
PlateLaminapropInputs == {None, Some(PropIso), Some(PropOrtho)}
PlateLaminapropsInputs ==
    {None} \cup
    {Some(s) : s \in Cycles({<<PropOrtho, PropOrtho, PropIso>>,
                             <<PropIso, PropZero>>}, MaxSeq)}
RhosInputs == {None} \cup {Some(s) : s \in Cycles({<<R(1, 1), R(2, 1)>>}, MaxSeq)}
OffsetInputs == {None, Some(R(1, 2))}
CalcScfInputs == {NoFlag, Some(TRUE), Some(FALSE)}
PlateCalcScfInputs == {NoFlag, Some(FALSE)}
ThicknessInputs == {R(1, 8), R(3, 1)}
EInputs == {R(0, 1), R(2, 1), R(7, 1)}
NuInputs == {R(-1, 1), R(0, 1), R(1, 2)}

\* The value written into a material record by its owner.
Marker == R(-7, 1)

(***************************************************************************)
(* The state machine: a caller makes one call at a time, may write to the   *)
(* material record of one ply of the laminate it got, and drops the result. *)
(***************************************************************************)
NoCall ==
    [op |-> "none", laminaprop |-> None, rho |-> None, stack |-> <<>>,
     plyt |-> None, plyts |-> None, laminaprops |-> None, rhos |-> None,
     offset |-> None, calc_scf |-> NoFlag, thickness |-> Zero, E |-> Zero,
     nu |-> Zero, wrote |-> 0]

NoRet == [tag |-> "none", err |-> "ok", ref |-> 0, lam |-> NoLaminate]

Init ==
    /\ pc = "idle"
    /\ call = NoCall
    /\ heap = <<>>
    /\ ret = NoRet
    /\ log = <<>>

CallReadLaminaprop ==
    /\ pc = "idle"
    /\ \E laminaprop \in LaminapropInputs, rho \in RhoInputs :
          \E r \in {read_laminaprop(0, laminaprop, OrDefault(rho, DefaultRho))} :
              /\ call' = [NoCall EXCEPT !.op = "read_laminaprop",
                                        !.laminaprop = laminaprop, !.rho = rho]
              /\ heap' = HeapOf(<<r>>)
              /\ log' = r.log
              /\ ret' = IF r.err = "ok"
                        THEN [NoRet EXCEPT !.tag = "matlam", !.ref = r.ref]
                        ELSE [NoRet EXCEPT !.tag = "error", !.err = r.err]
    /\ pc' = "returned"

CallLaminatedPlate ==
    /\ pc = "idle"
    /\ \E stack \in Stacks, plyt \in PlytInputs, plyts \in PlytsInputs,
          laminaprop \in PlateLaminapropInputs,
          laminaprops \in PlateLaminapropsInputs,
          rho \in RhoInputs, rhos \in RhosInputs,
          offset \in OffsetInputs, calc_scf \in PlateCalcScfInputs :
          \E r \in {laminated_plate(0, stack, plyt, laminaprop,
                                     OrDefault(rho, DefaultRho), plyts,
                                     laminaprops, rhos,
                                     OrDefault(offset, DefaultOffset),
                                     OrDefault(calc_scf, DefaultCalcScf))} :
              /\ call' = [NoCall EXCEPT !.op = "laminated_plate",
                             !.stack = stack, !.plyt = plyt, !.plyts = plyts,
                             !.laminaprop = laminaprop,
                             !.laminaprops = laminaprops, !.rho = rho,
                             !.rhos = rhos, !.offset = offset,
                             !.calc_scf = calc_scf]
              /\ heap' = HeapOf(r.made)
              /\ log' = r.log
              /\ ret' = IF r.err = "ok"
                        THEN [NoRet EXCEPT !.tag = "laminate", !.lam = r.lam]
                        ELSE [NoRet EXCEPT !.tag = "error", !.err = r.err]
    /\ pc' = "returned"

CallIsotropicPlate ==
    /\ pc = "idle"
    /\ \E thickness \in ThicknessInputs, E \in EInputs, nu \in NuInputs,
          offset \in OffsetInputs, calc_scf \in CalcScfInputs :
          \E r \in {isotropic_plate(0, thickness, E, nu,
                                     OrDefault(offset, DefaultOffset),
                                     OrDefault(calc_scf, DefaultCalcScf))} :
              /\ call' = [NoCall EXCEPT !.op = "isotropic_plate",
                             !.thickness = thickness, !.E = E, !.nu = nu,
                             !.offset = offset, !.calc_scf = calc_scf]
              /\ heap' = HeapOf(r.made)
              /\ log' = r.log
              /\ ret' = IF r.err = "ok"
                        THEN [NoRet EXCEPT !.tag = "laminate", !.lam = r.lam]
                        ELSE [NoRet EXCEPT !.tag = "error", !.err = r.err]
    /\ pc' = "returned"

\* The owner of a returned laminate writes attribute e1 of the material
\* record of ply i.
WriteMaterial ==
    /\ pc = "returned"
    /\ ret.tag = "laminate"
    /\ \E i \in 1..Len(ret.lam.plies) :
          /\ heap' = [heap EXCEPT ![ret.lam.plies[i].matlamina].e1 = Marker]
          /\ call' = [call EXCEPT !.wrote = i]
    /\ pc' = "written"
    /\ UNCHANGED <<ret, log>>

\* The caller drops the result.
Drop ==
    /\ pc \in {"returned", "written"}
    /\ pc' = "idle"
    /\ call' = NoCall
    /\ heap' = <<>>
    /\ ret' = NoRet
    /\ log' = <<>>

Next ==
    \/ CallReadLaminaprop
    \/ CallLaminatedPlate
    \/ CallIsotropicPlate
    \/ WriteMaterial
    \/ Drop

Spec == Init /\ [][Next]_vars

(***************************************************************************)
(* What the claims speak about                                             *)
(***************************************************************************)
Returned_read_laminaprop == pc = "returned" /\ call.op = "read_laminaprop"
Returned_laminated_plate == pc = "returned" /\ call.op = "laminated_plate"
Returned_isotropic_plate == pc = "returned" /\ call.op = "isotropic_plate"

\* the tuple given to read_laminaprop, and the record it returned
GivenTuple == call.laminaprop.val
Record == heap[ret.ref]

\* the material record of ply i of the laminate returned
PlyRecord(i) == heap[ret.lam.plies[i].matlamina]

\* every per-ply sequence given has the length of the stack
Aligned ==
    /\ call.plyts.some => Len(call.plyts.val) = Len(call.stack)
    /\ call.laminaprops.some => Len(call.laminaprops.val) = Len(call.stack)
    /\ call.rhos.some => Len(call.rhos.val) = Len(call.stack)

\* what position i of the stack was given
GivenThickness(i) ==
    IF call.plyts.some THEN call.plyts.val[i] ELSE call.plyt.val
GivenLaminaprop(i) ==
    IF call.laminaprops.some THEN call.laminaprops.val[i]
    ELSE call.laminaprop.val
GivenRho(i) ==
    IF call.rhos.some THEN call.rhos.val[i]
    ELSE IF call.rho.some THEN call.rho.val ELSE R(0, 1)

\* positions of the log
Where(e, o, f) ==
    {k \in 1..Len(log) : log[k].ev = e /\ log[k].obj = o /\ log[k].field = f}
Times(e, o) == Cardinality(Where(e, o, ""))
At(e, o, f) == CHOOSE k \in Where(e, o, f) : TRUE
Collaborators ==
    {"matlam.rebuild", "lam.rebuild", "lam.calc_constitutive_matrix",
     "lam.calc_scf"}

(***************************************************************************)
(* C1                                                                      *)
(***************************************************************************)
SixTuple ==
    /\ Returned_read_laminaprop
    /\ call.laminaprop.some
    /\ Len(GivenTuple) = 6
    /\ ~IsZero(GivenTuple[1])
    /\ ~IsZero(GivenTuple[2])

SixTupleKept ==
    /\ ret.tag = "matlam"
    /\ Record.e1 = GivenTuple[1]
    /\ Record.e2 = GivenTuple[2]
    /\ Record.nu12 = GivenTuple[3]
    /\ Record.g12 = GivenTuple[4]
    /\ Record.g13 = GivenTuple[5]
    /\ Record.g23 = GivenTuple[6]
    /\ Record.nu13 = GivenTuple[3]
    /\ Record.nu23 = GivenTuple[3]

\* C1 as stated: for a 6-element input (E1, E2, nu12, G12, G13, G23) with
\* non-zero E1 and E2, read_laminaprop returns a record with the six values
\* unchanged, nu13 = nu23 = nu12 and E3 = E1.
C1_SixTupleE3IsE1 ==
    SixTuple => SixTupleKept /\ Record.e3 = GivenTuple[1]

\* C1 amended: for a 6-element input (E1, E2, nu12, G12, G13, G23) with
\* non-zero E1 and E2, read_laminaprop returns a record with the six values
\* unchanged, nu13 = nu23 = nu12 and E3 = E2: the tuple is completed by
\* appending (E2, nu12, nu12).
C1_SixTupleE3IsE2 ==
    SixTuple => SixTupleKept /\ Record.e3 = GivenTuple[2]

C1_Witness ==
    /\ SixTuple
    /\ ret.tag = "matlam"
    /\ GivenTuple[1] # GivenTuple[2]

(***************************************************************************)
(* C2                                                                      *)
(***************************************************************************)
\* C2: for a null input and for every input whose length is not 2, 3, 6 or
\* 9, read_laminaprop ends in an error and returns no material record.
C2_UnsupportedLengthIsAnError ==
    /\ Returned_read_laminaprop
    /\ \/ ~call.laminaprop.some
       \/ Len(GivenTuple) \notin {2, 3, 6, 9}
    => ret.tag = "error"

(***************************************************************************)
(* C3                                                                      *)
(***************************************************************************)
\* C3: every laminate that laminated_plate returns has as many plies as the
\* stacking sequence has angles, also when a per-ply sequence is shorter or
\* longer than the stack.
C3_PlyCountIsStackLength ==
    Returned_laminated_plate /\ ret.tag = "laminate"
    => Len(ret.lam.plies) = Len(call.stack)

(***************************************************************************)
(* C4                                                                      *)
(***************************************************************************)
NothingBuilt ==
    /\ ret.tag = "error"
    /\ ret.err = "ValueError"
    /\ heap = <<>>
    /\ \A k \in 1..Len(log) :
          /\ log[k].ev \notin Collaborators
          /\ log[k].ev \notin {"Lamina", "MatLamina", "plies.append"}

\* C4: laminated_plate without plyt and plyts, and laminated_plate without
\* laminaprop and laminaprops, fails with a usage error for every stack and
\* every value of the other parameters; no laminate is returned, no ply is
\* built and no collaborator operation is invoked.  Without rho and rhos
\* the call is not refused for it and every ply of a returned laminate has
\* density 0.
C4_MissingInput ==
    Returned_laminated_plate =>
        /\ ~call.plyt.some /\ ~call.plyts.some => NothingBuilt
        /\ ~call.laminaprop.some /\ ~call.laminaprops.some => NothingBuilt
        /\ ~call.rho.some /\ ~call.rhos.some /\ ret.tag = "laminate"
              => \A i \in 1..Len(ret.lam.plies) : PlyRecord(i).rho = R(0, 1)
        /\ /\ ~call.rho.some /\ ~call.rhos.some
           /\ call.plyt.some /\ ~call.plyts.some
           /\ call.laminaprop.some /\ ~call.laminaprops.some
           => ret.tag = "laminate"

C4_Witness ==
    /\ Returned_laminated_plate
    /\ call.plyt.some
    /\ ~call.laminaprop.some /\ ~call.laminaprops.some
    /\ Len(call.stack) = 2
    /\ call.rhos.some
    /\ NothingBuilt

(***************************************************************************)
(* C5                                                                      *)
(***************************************************************************)
\* C5: for a stack of length N and inputs that are scalars or per-ply
\* sequences of length N, the laminate returned has N plies in stack order;
\* ply i has the angle float(stack[i]), the thickness plyts[i] when plyts is
\* given and plyt otherwise, and the material record that read_laminaprop
\* makes of laminaprops[i] when laminaprops is given (laminaprop otherwise)
\* with density rhos[i] when rhos is given (rho otherwise).
C5_PliesFollowTheStack ==
    Returned_laminated_plate /\ ret.tag = "laminate" /\ Aligned =>
        /\ ret.lam.stack = call.stack
        /\ Len(ret.lam.plies) = Len(call.stack)
        /\ \A i \in 1..Len(call.stack) :
              /\ ret.lam.plies[i].theta.ty = "float"
              /\ ret.lam.plies[i].theta.v = call.stack[i].v
              /\ ret.lam.plies[i].h = GivenThickness(i)
              /\ PlyRecord(i).e1 = GivenLaminaprop(i)[1]
              /\ PlyRecord(i).rho = GivenRho(i)
              /\ PlyRecord(i)
                    = read_laminaprop(0, Some(GivenLaminaprop(i)), GivenRho(i)).matlam

C5_Witness ==
    /\ Returned_laminated_plate /\ ret.tag = "laminate" /\ Aligned
    /\ Len(call.stack) = 2
    /\ call.stack[1].ty = "int"
    /\ call.plyt.some /\ call.plyts.some
    /\ call.laminaprop.some /\ call.laminaprops.some
    /\ call.rho.some /\ call.rhos.some
    /\ call.laminaprops.val[1] # call.laminaprop.val

(***************************************************************************)
(* C6                                                                      *)
(***************************************************************************)
\* C6: in every laminate returned no two plies refer to the same material
\* record, also when one laminaprop is broadcast to all plies or several
\* entries of laminaprops are the same tuple; so after a write to attribute
\* e1 of the record of one ply, the record of every other ply still has
\* the e1 of its own tuple.
C6_NoSharedMaterial ==
    ret.tag = "laminate" =>
        /\ \A i, j \in 1..Len(ret.lam.plies) :
              i # j => ret.lam.plies[i].matlamina # ret.lam.plies[j].matlamina
        /\ \A i \in 1..Len(ret.lam.plies) :
              ret.lam.plies[i].matlamina \in 1..Len(heap)
        /\ pc = "written" /\ call.op = "laminated_plate" =>
              \A j \in 1..Len(ret.lam.plies) :
                 PlyRecord(j).e1 = IF j = call.wrote THEN Marker
                                   ELSE GivenLaminaprop(j)[1]

C6_Witness ==
    /\ pc = "written"
    /\ call.op = "laminated_plate"
    /\ ~call.laminaprops.some
    /\ Len(ret.lam.plies) = 2
    /\ call.wrote = 2

(***************************************************************************)
(* C7                                                                      *)
(***************************************************************************)
IsotropicInput ==
    /\ Returned_read_laminaprop
    /\ call.laminaprop.some
    /\ Len(GivenTuple) \in {2, 3}
    /\ ~IsZero(GivenTuple[1])
    /\ GivenTuple[Len(GivenTuple)] # R(-1, 1)

\* C7: for an isotropic input (E, nu), or (E1, E2, nu12) read with E = E1
\* and nu = nu12, with E non-zero and nu not -1, read_laminaprop returns a
\* record with E1 = E2 = E3 = E, nu12 = nu13 = nu23 = nu,
\* G12 = G13 = G23 = E/(2*(1+nu)) and nu21 = nu31 = nu32 = nu; the E2 of the
\* 3-element form has no effect.
C7_Isotropic ==
    IsotropicInput =>
        LET E == GivenTuple[1]
            nu == GivenTuple[Len(GivenTuple)]
        IN  /\ ret.tag = "matlam"
            /\ \A f \in {"e1", "e2", "e3"} : Record[f] = E
            /\ \A f \in {"nu12", "nu13", "nu23", "nu21", "nu31", "nu32"} :
                  Record[f] = nu
            /\ \A f \in {"g12", "g13", "g23"} :
                  RMul(Record[f], RMul(R(2, 1), RAdd(R(1, 1), nu))) = E
            /\ Record.g12 = Record.g13 /\ Record.g13 = Record.g23

C7_Witness ==
    /\ IsotropicInput
    /\ Len(GivenTuple) = 3
    /\ GivenTuple[2] # GivenTuple[1]
    /\ ret.tag = "matlam"

(***************************************************************************)
(* C8                                                                      *)
(***************************************************************************)
\* C8: every record that read_laminaprop returns satisfies
\* nu21*E1 = nu12*E2, nu31*E1 = nu13*E3 and nu32*E2 = nu23*E3; a 9-element
\* input with non-zero E1 and E2 is returned as a record with E1, E2, E3
\* its elements [0], [1], [6], nu12, nu13, nu23 its elements [2], [7], [8]
\* and G12, G13, G23 its elements [3], [4], [5].
C8_Reciprocity ==
    Returned_read_laminaprop =>
        /\ ret.tag = "matlam" =>
              /\ RMul(Record.nu21, Record.e1) = RMul(Record.nu12, Record.e2)
              /\ RMul(Record.nu31, Record.e1) = RMul(Record.nu13, Record.e3)
              /\ RMul(Record.nu32, Record.e2) = RMul(Record.nu23, Record.e3)
        /\ /\ call.laminaprop.some
           /\ Len(GivenTuple) = 9
           /\ ~IsZero(GivenTuple[1])
           /\ ~IsZero(GivenTuple[2])
           => /\ ret.tag = "matlam"
              /\ Record.e1 = GivenTuple[1]
              /\ Record.e2 = GivenTuple[2]
              /\ Record.e3 = GivenTuple[7]
              /\ Record.nu12 = GivenTuple[3]
              /\ Record.nu13 = GivenTuple[8]
              /\ Record.nu23 = GivenTuple[9]
              /\ Record.g12 = GivenTuple[4]
              /\ Record.g13 = GivenTuple[5]
              /\ Record.g23 = GivenTuple[6]

C8_Witness ==
    /\ Returned_read_laminaprop
    /\ call.laminaprop.some
    /\ Len(GivenTuple) = 9
    /\ ret.tag = "matlam"
    /\ GivenTuple[1] # GivenTuple[2]
    /\ GivenTuple[7] # GivenTuple[2]
    /\ GivenTuple[8] # GivenTuple[9]

(***************************************************************************)
(* C9                                                                      *)
(***************************************************************************)
GivenOffset == IF call.offset.some THEN call.offset.val ELSE R(0, 1)
GivenCalcScf == IF call.calc_scf.some THEN call.calc_scf.val ELSE TRUE

\* C9: isotropic_plate(thickness, E, nu, offset, calc_scf) ends as
\* laminated_plate(stack=[0], plyt=thickness, laminaprop=(E, nu),
\* offset=offset, calc_scf=calc_scf) does, after the same collaborator
\* calls: the laminate returned has exactly one ply, of angle 0.0, of the
\* thickness given, with the isotropic material of (E, nu) and density 0,
\* and the offset given (0 by default); calc_scf is called once when the
\* flag is true (the default) and never when it is false.
C9_IsotropicPlate ==
    Returned_isotropic_plate =>
        /\ ret.tag = "laminate" =>
              /\ ret.lam.stack = <<[ty |-> "int", v |-> R(0, 1)]>>
              /\ Len(ret.lam.plies) = 1
              /\ ret.lam.plies[1].theta = [ty |-> "float", v |-> R(0, 1)]
              /\ ret.lam.plies[1].h = call.thickness
              /\ ret.lam.offset = GivenOffset
              /\ \A f \in {"e1", "e2", "e3"} : PlyRecord(1)[f] = call.E
              /\ \A f \in {"nu12", "nu13", "nu23", "nu21", "nu31", "nu32"} :
                    PlyRecord(1)[f] = call.nu
              /\ \A f \in {"g12", "g13", "g23"} :
                    RMul(PlyRecord(1)[f],
                         RMul(R(2, 1), RAdd(R(1, 1), call.nu))) = call.E
              /\ PlyRecord(1).rho = R(0, 1)
              /\ Times("lam.calc_scf", 0) = IF GivenCalcScf THEN 1 ELSE 0
        /\ \E r \in {laminated_plate(0, <<[ty |-> "int", v |-> R(0, 1)]>>,
                                     Some(call.thickness),
                                     Some(<<call.E, call.nu>>), R(0, 1), None,
                                     None, None, GivenOffset, GivenCalcScf)} :
              /\ (ret.tag = "laminate") = (r.err = "ok")
              /\ ret.tag = "error" => ret.err = r.err
              /\ ret.lam = r.lam
              /\ heap = HeapOf(r.made)
              /\ log = r.log
        /\ ~IsZero(call.E) /\ call.nu # R(-1, 1) => ret.tag = "laminate"

C9_Witness ==
    /\ Returned_isotropic_plate
    /\ ret.tag = "laminate"
    /\ call.offset.some
    /\ call.calc_scf.some /\ ~call.calc_scf.val

(***************************************************************************)
(* C10                                                                     *)
(***************************************************************************)
\* C10: in a laminated_plate call that returns, on a stack of length N with
\* aligned inputs, for each ply in stack order the material finalize is
\* invoked exactly once, after all attributes of the ply's material record
\* and its density are set; after all N plies are attached and the offset is
\* set the laminate finalize is invoked exactly once, then the
\* constitutive-matrix assembly exactly once, then the shear-correction
\* computation exactly once if calc_scf is true and never if it is false.
C10_CollaboratorOrder ==
    Returned_laminated_plate /\ ret.tag = "laminate" /\ Aligned =>
        /\ \A i \in 1..Len(call.stack) :
              \E ref \in {ret.lam.plies[i].matlamina} :
                 /\ Times("matlam.rebuild", ref) = 1
                 /\ \A f \in FieldNames :
                       /\ Cardinality(Where("set", ref, f)) = 1
                       /\ At("set", ref, f) < At("matlam.rebuild", ref, "")
                 /\ Times("plies.append", i) = 1
                 /\ At("matlam.rebuild", ref, "") < At("plies.append", i, "")
                 /\ At("plies.append", i, "") < At("lam.plies", 0, "")
                 /\ i > 1 => At("plies.append", i - 1, "")
                                < At("set", ref, "e1")
        /\ Cardinality({k \in 1..Len(log) : log[k].ev = "matlam.rebuild"})
              = Len(call.stack)
        /\ Times("lam.offset", 0) = 1
        /\ Times("lam.plies", 0) = 1
        /\ Times("lam.rebuild", 0) = 1
        /\ Times("lam.calc_constitutive_matrix", 0) = 1
        /\ Times("lam.calc_scf", 0) = IF GivenCalcScf THEN 1 ELSE 0
        /\ At("lam.offset", 0, "") < At("lam.rebuild", 0, "")
        /\ At("lam.plies", 0, "") < At("lam.rebuild", 0, "")
        /\ At("lam.rebuild", 0, "") < At("lam.calc_constitutive_matrix", 0, "")
        /\ GivenCalcScf =>
              /\ At("lam.calc_constitutive_matrix", 0, "")
                    < At("lam.calc_scf", 0, "")
              /\ At("lam.calc_scf", 0, "") = Len(log)
        /\ ~GivenCalcScf => At("lam.calc_constitutive_matrix", 0, "") = Len(log)

C10_Witness ==
    /\ Returned_laminated_plate /\ ret.tag = "laminate" /\ Aligned
    /\ Len(call.stack) = 2
    /\ call.calc_scf.some /\ ~call.calc_scf.val

====
